---- MODULE Spec2Model ----
(***************************************************************************)
(* Translation workflow of the Regional Narrative page: the page           *)
(* controller (handleTranslate, the auto-translate effect, handleGenerate),*)
(* the useTranslation hook and the /api/translate route.                    *)
(*                                                                         *)
(* A text is a sequence of tokens <<kind, a, b, lang, length>>, the last    *)
(* field being the number of characters the token stands for:              *)
(*   <<"narrative", source, region, lang, n>>  the generated narrative     *)
(*   <<"chars", name, "", lang, n>>            n characters of plain text  *)
(*   <<"space", "", "", "en", n>>              n whitespace characters     *)
(*   <<"rule", "", "", "en", 43>>              the line of box characters  *)
(*   <<"noteUnavailable", name, "", "en", n>>  "[Note: Translation service *)
(*                                       is not available ... <name> ..."  *)
(*   <<"noteError", name, "", "en", n>>        "[Note: Translation service *)
(*                                       error ... <name> ..."             *)
(*   <<"noteTruncated", limit, why, "en", n>>  "[Note: Translation         *)
(*                                       truncated to <limit> characters   *)
(*                                       <why>]"                           *)
(*   <<"serverError", "", "", "en", 44>>       "Translation service error. *)
(*                                       Please try again."                *)
(* String concatenation is \o, the empty string is << >>.                  *)
(***************************************************************************)
EXTENDS Integers, Sequences, FiniteSets, TLC

\* Number of user interactions (clicks, edits) explored in one session.
MaxUserActions == 6

\* Number of user interactions in the longer sessions explored against the
\* deployed route alone.
MaxLongActions == 7

(***************************************************************************)
(* Catalogs                                                                *)
(***************************************************************************)

\* Regions explored (two of the five entries of the regions table).
RegionNames == {"West India", "North East India"}

regions ==
  [r \in RegionNames |->
     IF r = "West India" THEN {"mr", "gu"} ELSE {"as", "mni"}]

supportedLanguages ==
  [l \in {"mr", "gu", "as", "mni"} |->
     CASE l = "mr"  -> "Marathi"
       [] l = "gu"  -> "Gujarati"
       [] l = "as"  -> "Assamese"
       [] l = "mni" -> "Manipuri"]

\* supportedLanguages.find(l => l.code === targetLang)?.name || targetLang
langNameOf(targetLang) ==
  IF targetLang \in DOMAIN supportedLanguages
    THEN supportedLanguages[targetLang]
    ELSE targetLang

\* availableLanguages: the language buttons rendered for the selected region.
availableLanguages(region) ==
  IF region = "" THEN {}
  ELSE {l \in DOMAIN supportedLanguages : l \in regions[region]}

\* Codes of the route's LANGUAGE_NAMES table that the model uses ('dcc' has
\* no entry in GOOGLE_LANGUAGE_CODES).
LANGUAGE_NAMES == {"en", "mr", "gu", "as", "mni", "dcc"}

\* Codes of the LANGUAGE_NAMES table of the IndicTrans2 + MyMemory route.
LANGUAGE_NAMES_cloud == {"mr", "gu", "as", "mni"}

\* Keys that every object literal inherits from Object.prototype (one of
\* them): `key in table` is true for them and `table[key]` is a function.
ObjectPrototypeKeys == {"constructor"}

\* `key in table`, and the truthiness of `table[key]`, for a table written as
\* an object literal with non-empty string values.
HasKey(table, key) == key \in table \/ key \in ObjectPrototypeKeys

\* Codes of the route's GOOGLE_LANGUAGE_CODES table that the model uses.
GOOGLE_LANGUAGE_CODES == {"en", "mr", "gu", "as", "mni"}

\* Values typed into the source textarea: empty, whitespace only, a plain
\* press release, and one that quotes a "[Note: Translation service" line.
SourceTexts == {"", "ws", "plain", "marked"}

(***************************************************************************)
(* Text                                                                    *)
(***************************************************************************)

EmptyText == << >>

RuleToken == <<"rule", "", "", "en", 43>>

ServerErrorText == << <<"serverError", "", "", "en", 44>> >>

\* source.trim() is empty
IsBlankSource(source) == source \in {"", "ws"}

\* text.includes('[Note: Translation service')
IncludesNoteMarker(text) ==
  \E i \in DOMAIN text :
    /\ text[i][4] = "en"
    /\ \/ text[i][1] \in {"noteUnavailable", "noteError"}
       \/ (text[i][1] = "narrative" /\ text[i][2] = "marked")

\* text.includes('━━━━...')
IncludesRule(text) == \E i \in DOMAIN text : text[i][1] = "rule"

\* text.length
RECURSIVE Length(_)
Length(text) ==
  IF text = << >> THEN 0 ELSE Head(text)[5] + Length(Tail(text))

\* text.slice(0, n)
RECURSIVE Slice(_, _)
Slice(text, n) ==
  IF text = << >> \/ n <= 0 THEN << >>
  ELSE LET first == Head(text)
       IN  IF first[5] <= n
             THEN <<first>> \o Slice(Tail(text), n - first[5])
             ELSE << <<first[1], first[2], first[3], first[4], n>> >>

\* What a provider returns for a text: the same content in the target
\* language (the change of length in translation is left out).
Translated(text, targetLang) ==
  [i \in DOMAIN text |-> <<text[i][1], text[i][2], text[i][3], targetLang, text[i][5]>>]

\* Length of a narrative built with the default word count: more than
\* MyMemory's limit, less than Google's.
NarrativeLength == 800

\* generateNarrative: the narrative is a function of the source text and the
\* region (media type, tone and word count are held fixed).
generateNarrative(source, region) ==
  IF IsBlankSource(source)
    THEN << <<"narrative", "prompt", "", "en", 51>> >>
    ELSE << <<"narrative", source, region, "en", NarrativeLength>> >>

(***************************************************************************)
(* /api/translate route.  An HTTP exchange as the browser sees it:         *)
(*   net        "ok" when a response arrived, "fail" when fetch rejected   *)
(*   status     the HTTP status                                            *)
(*   json       whether response.json() parses the body                    *)
(*   hasText / translatedText   the body's translatedText, when present    *)
(*   isFallback, source, hasError   the body's other fields                *)
(***************************************************************************)

Response(status, hasText, translatedText, isFallback, source, hasError) ==
  [net |-> "ok", status |-> status, json |-> TRUE, hasText |-> hasText,
   translatedText |-> translatedText, isFallback |-> isFallback,
   source |-> source, hasError |-> hasError, timeMs |-> "absent",
   note |-> "", noteNames |-> ""]

\* The body's timeMs: "zero" for the literal 0, "elapsed" for a measured time.
WithTime(resp, timeMs) == [resp EXCEPT !.timeMs = timeMs]

\* The body's note and the language it names.
WithNote(resp, note, names) == [resp EXCEPT !.note = note, !.noteNames = names]

\* fetch('/api/translate') rejected: no response at all.
NetworkFailure ==
  [net |-> "fail", status |-> 0, json |-> FALSE, hasText |-> FALSE,
   translatedText |-> EmptyText, isFallback |-> FALSE, source |-> "",
   hasError |-> FALSE, timeMs |-> "absent", note |-> "",
   noteNames |-> ""]

\* A response whose body is not JSON (an HTML page of the platform).
NonJsonResponse(status) ==
  [net |-> "ok", status |-> status, json |-> FALSE, hasText |-> FALSE,
   translatedText |-> EmptyText, isFallback |-> FALSE, source |-> "",
   hasError |-> FALSE, timeMs |-> "absent", note |-> "",
   noteNames |-> ""]

NoResponse ==
  [net |-> "none", status |-> 0, json |-> FALSE, hasText |-> FALSE,
   translatedText |-> EmptyText, isFallback |-> FALSE, source |-> "",
   hasError |-> FALSE, timeMs |-> "absent", note |-> "",
   noteNames |-> ""]

\* What the upstream services can do with one request.
GoogleOutcomes ==
  {"translated", "identical", "httpError", "errorPayload", "emptyTranslation",
   "networkError"}
MyMemoryOutcomes == {"translated", "httpError", "badStatus", "networkError"}
PythonOutcomes == {"translated", "noText", "httpError", "networkError"}

\* Result of a provider function: it threw, or it returned a string
\* (ok = TRUE) or null (ok = FALSE).
Threw == [threw |-> TRUE, ok |-> FALSE, value |-> EmptyText]
ReturnedNull == [threw |-> FALSE, ok |-> FALSE, value |-> EmptyText]
Returned(text) == [threw |-> FALSE, ok |-> text # EmptyText, value |-> text]

\* A call of a provider function: its result, whether it sent a request to
\* the provider, and the text it sent.
Attempt(result, contacted, q) ==
  [threw |-> result.threw, ok |-> result.ok, value |-> result.value,
   contacted |-> contacted, q |-> q]

\* The providers' limits on the text of one request.
GoogleMaxChars == 4500
MyMemoryMaxChars == 500

TruncationNoteGoogle ==
  << <<"noteTruncated", "4,500", "to meet Google API limits", "en", 77>> >>

TruncationNoteMyMemory ==
  << <<"noteTruncated", "500", "due to MyMemory free tier limits", "en", 82>> >>

\* The threshold test without the limit itself.
IsOverLimit_Inclusive(text, limit) == Length(text) >= limit

\* text.length > limit
IsOverLimit(text, limit) == Length(text) > limit

\* const textToTranslate = text.length > 4500 ? text.slice(0, 4500) : text
textToTranslate(text) ==
  IF IsOverLimit(text, GoogleMaxChars) THEN Slice(text, GoogleMaxChars) ELSE text

\* const truncated = text.length > 500 ? text.slice(0, 500) : text
truncated(text) ==
  IF IsOverLimit(text, MyMemoryMaxChars) THEN Slice(text, MyMemoryMaxChars) ELSE text

\* translateWithGoogleAPI when its fetch rejects or times out: the fetch is
\* not inside a try block, so the rejection propagates to the caller.
GoogleFetchFails == Threw

\* translateWithGoogleAPI.  The joined translations are trimmed, so a blank
\* translation is the empty string and null is returned.
translateWithGoogleAPI(text, sourceLang, targetLang, hasApiKey, outcome) ==
  IF ~hasApiKey THEN Attempt(ReturnedNull, FALSE, EmptyText)
  ELSE IF ~HasKey(GOOGLE_LANGUAGE_CODES, sourceLang) \/ ~HasKey(GOOGLE_LANGUAGE_CODES, targetLang)
    THEN Attempt(ReturnedNull, FALSE, EmptyText)
  ELSE
    LET q == textToTranslate(text)
        note == IF IsOverLimit(text, GoogleMaxChars) THEN TruncationNoteGoogle ELSE << >>
        translated == IF outcome = "identical" THEN q ELSE Translated(q, targetLang)
    IN  CASE outcome = "networkError"     -> Attempt(GoogleFetchFails, TRUE, q)
          [] outcome = "httpError"        -> Attempt(ReturnedNull, TRUE, q)
          [] outcome = "errorPayload"     -> Attempt(ReturnedNull, TRUE, q)
          [] outcome = "emptyTranslation" -> Attempt(ReturnedNull, TRUE, q)
          [] OTHER ->
               IF \A i \in DOMAIN translated : translated[i][1] = "space"
                 THEN Attempt(ReturnedNull, TRUE, q)
                 ELSE Attempt(Returned(translated \o note), TRUE, q)

\* translateWithMyMemory: everything is inside try/catch.
translateWithMyMemory(text, sourceLang, targetLang, outcome) ==
  LET q == truncated(text)
      note == IF IsOverLimit(text, MyMemoryMaxChars) THEN TruncationNoteMyMemory ELSE << >>
  IN  CASE outcome = "networkError" -> Attempt(ReturnedNull, TRUE, q)
        [] outcome = "httpError"    -> Attempt(ReturnedNull, TRUE, q)
        [] outcome = "badStatus"    -> Attempt(ReturnedNull, TRUE, q)
        [] OTHER -> Attempt(Returned(Translated(q, targetLang) \o note), TRUE, q)

TruncationNoteCloud ==
  << <<"noteTruncated", "500", "due to free tier limits", "en", 73>> >>

\* translateWithCloudAPI of the IndicTrans2 + MyMemory route.
translateWithCloudAPI(text, sourceLang, targetLang, outcome) ==
  LET q == IF IsOverLimit(text, MyMemoryMaxChars)
             THEN Slice(text, MyMemoryMaxChars) ELSE text
      note == IF IsOverLimit(text, MyMemoryMaxChars) THEN TruncationNoteCloud ELSE << >>
  IN  CASE outcome = "networkError" -> Attempt(ReturnedNull, TRUE, q)
        [] outcome = "httpError"    -> Attempt(ReturnedNull, TRUE, q)
        [] outcome = "badStatus"    -> Attempt(ReturnedNull, TRUE, q)
        [] OTHER -> Attempt(Returned(Translated(q, targetLang) \o note), TRUE, q)

\* One run of a POST handler: its response, the provider functions it called
\* in order, and the requests that reached a provider, in order.
Run(response, called, contacts) ==
  [response |-> response, called |-> called, contacts |-> contacts]

Contact(provider, attempt) ==
  IF attempt.contacted THEN << [provider |-> provider, q |-> attempt.q] >> ELSE << >>

\* The language named by the degraded response's note:
\* LANGUAGE_NAMES[targetLang] || targetLang.
NoteNames(targetLang) ==
  IF targetLang \notin LANGUAGE_NAMES /\ targetLang \in ObjectPrototypeKeys
    THEN "function"
    ELSE targetLang

\* The validation with the text alone.
MissingField_TextOnly(text, sourceLang, targetLang) == text = EmptyText

\* if (!text || !sourceLang || !targetLang)
MissingField(text, sourceLang, targetLang) ==
  text = EmptyText \/ sourceLang = "" \/ targetLang = ""

\* The route without its same-language answer.
IsSameLanguage_Never(sourceLang, targetLang) == FALSE

\* if (sourceLang === targetLang)
IsSameLanguage(sourceLang, targetLang) == sourceLang = targetLang

\* POST of the current route (Google first, MyMemory second), with what it
\* called on the way.  googleTranslation and cloudTranslation are what the two
\* awaited calls return; each is used only where the code makes the call.  A
\* field that is absent from the body and an empty one are both falsy:
\* EmptyText and "" stand for either.
POST_run(text, sourceLang, targetLang, googleTranslation, cloudTranslation) ==
  IF MissingField(text, sourceLang, targetLang)
    THEN Run(Response(400, FALSE, EmptyText, FALSE, "", TRUE), << >>, << >>)
  ELSE IF IsSameLanguage(sourceLang, targetLang)
    THEN Run(WithTime(Response(200, TRUE, text, FALSE, "noop", FALSE), "zero"),
             << >>, << >>)
  ELSE IF googleTranslation.threw
    THEN Run(Response(500, TRUE, ServerErrorText, FALSE, "", TRUE),
             <<"google">>, Contact("google", googleTranslation))
  ELSE IF googleTranslation.ok
    THEN Run(WithTime(Response(200, TRUE, googleTranslation.value, FALSE,
                               "google", FALSE), "elapsed"),
             <<"google">>, Contact("google", googleTranslation))
  ELSE IF sourceLang = "en" /\ HasKey(LANGUAGE_NAMES, targetLang)
    THEN IF cloudTranslation.ok
           THEN Run(WithNote(WithTime(Response(200, TRUE, cloudTranslation.value,
                                               FALSE, "cloud-fallback", FALSE),
                                      "elapsed"),
                             "fallback", ""),
                    <<"google", "mymemory">>,
                    Contact("google", googleTranslation)
                      \o Contact("mymemory", cloudTranslation))
           ELSE Run(WithNote(WithTime(Response(503, TRUE, text, TRUE, "none", FALSE),
                                      "zero"),
                             "unavailable", NoteNames(targetLang)),
                    <<"google", "mymemory">>,
                    Contact("google", googleTranslation)
                      \o Contact("mymemory", cloudTranslation))
  ELSE Run(WithNote(WithTime(Response(503, TRUE, text, TRUE, "none", FALSE),
                             "zero"),
                    "unavailable", NoteNames(targetLang)),
           <<"google">>, Contact("google", googleTranslation))

\* The response of POST.
POST(text, sourceLang, targetLang, hasApiKey, gOut, mOut) ==
  POST_run(text, sourceLang, targetLang,
           translateWithGoogleAPI(text, sourceLang, targetLang, hasApiKey, gOut),
           translateWithMyMemory(text, sourceLang, targetLang, mOut)).response

\* POST of the earlier IndicTrans2-only route kept in the repository.
POST_indictrans(text, sourceLang, targetLang, usePythonService, pyOut) ==
  IF text = EmptyText \/ sourceLang = "" \/ targetLang = ""
    THEN Response(400, FALSE, EmptyText, FALSE, "", TRUE)
  ELSE IF usePythonService /\ pyOut = "translated"
    THEN Response(200, TRUE, Translated(text, targetLang), FALSE, "", FALSE)
  ELSE IF usePythonService /\ pyOut = "noText"
    THEN Response(200, FALSE, EmptyText, FALSE, "", FALSE)
  ELSE Response(200, TRUE, text, TRUE, "", FALSE)

\* POST of the earlier IndicTrans2 + MyMemory route kept in the repository.
POST_cloud(text, sourceLang, targetLang, usePythonService, pyOut, mOut) ==
  IF text = EmptyText \/ sourceLang = "" \/ targetLang = ""
    THEN Response(400, FALSE, EmptyText, FALSE, "", TRUE)
  ELSE IF usePythonService /\ pyOut = "translated"
    THEN Response(200, TRUE, Translated(text, targetLang), FALSE, "indictrans2", FALSE)
  ELSE IF usePythonService /\ pyOut = "noText"
    THEN Response(200, FALSE, EmptyText, FALSE, "indictrans2", FALSE)
  ELSE
    LET cloudTranslation ==
          translateWithCloudAPI(text, sourceLang, targetLang, mOut)
    IN  IF /\ sourceLang = "en"
           /\ HasKey(LANGUAGE_NAMES_cloud, targetLang)
           /\ cloudTranslation.ok
           /\ cloudTranslation.value # text
          THEN Response(200, TRUE, cloudTranslation.value, FALSE, "cloud", FALSE)
          ELSE Response(200, TRUE, text, TRUE, "none", FALSE)

\* The route file that is deployed and its environment: the Google route with
\* or without GOOGLE_TRANSLATE_API_KEY, or one of the two earlier routes with
\* or without an external TRANSLATION_SERVICE_URL.
Deployments ==
  [route : {"google", "indictrans", "cloud"}, configured : BOOLEAN]

\* Every exchange the browser can observe for one request.
Exchanges(dep, text, sourceLang, targetLang) ==
  {NetworkFailure, NonJsonResponse(200), NonJsonResponse(502)}
  \cup
  ( CASE dep.route = "google" ->
           {POST_run(text, sourceLang, targetLang,
                     googleTranslation, cloudTranslation).response :
              googleTranslation \in
                {translateWithGoogleAPI(text, sourceLang, targetLang, dep.configured, g) :
                   g \in GoogleOutcomes},
              cloudTranslation \in
                {translateWithMyMemory(text, sourceLang, targetLang, m) :
                   m \in MyMemoryOutcomes}}
      [] dep.route = "indictrans" ->
           {POST_indictrans(text, sourceLang, targetLang, dep.configured, p) :
              p \in PythonOutcomes}
      [] OTHER ->
           {POST_cloud(text, sourceLang, targetLang, dep.configured, p, m) :
              p \in PythonOutcomes, m \in MyMemoryOutcomes} )

(***************************************************************************)
(* useTranslation hook                                                     *)
(***************************************************************************)

\* !text.trim()
IsBlankText(text) == \A i \in DOMAIN text : text[i][1] = "space"

\* How a call of translate settles:
\*   settled   "resolved" or "rejected"
\*   value     the string it resolves with
\*   failed    whether the catch block ran (setError('Failed to translate text'))
Settled(value, failed) == [settled |-> "resolved", value |-> value, failed |-> failed]

NoResult == [settled |-> "none", value |-> EmptyText, failed |-> FALSE]

\* response.ok
IsOk(resp) == resp.status >= 200 /\ resp.status <= 299

\* translate without the response.ok test.
translate_NoOkCheck(text, resp) ==
  IF resp.net = "fail" THEN Settled(text, TRUE)
  ELSE IF ~resp.json THEN Settled(text, TRUE)
  ELSE IF resp.isFallback /\ resp.source = "none" THEN Settled(text, FALSE)
  ELSE IF resp.hasText /\ resp.translatedText # EmptyText
    THEN Settled(resp.translatedText, FALSE)
  ELSE Settled(text, FALSE)

\* translate returning data.translatedText without testing it.
translate_NoEmptyCheck(text, resp) ==
  IF resp.net = "fail" THEN Settled(text, TRUE)
  ELSE IF ~IsOk(resp) THEN Settled(text, TRUE)
  ELSE IF ~resp.json THEN Settled(text, TRUE)
  ELSE IF resp.isFallback /\ resp.source = "none" THEN Settled(text, FALSE)
  ELSE Settled(resp.translatedText, FALSE)

\* translate, from the arrival of the exchange to its return value.
translate(text, resp) ==
  IF resp.net = "fail" THEN Settled(text, TRUE)
  ELSE IF ~IsOk(resp) THEN Settled(text, TRUE)
  ELSE IF ~resp.json THEN Settled(text, TRUE)
  ELSE IF resp.isFallback /\ resp.source = "none" THEN Settled(text, FALSE)
  ELSE IF resp.hasText /\ resp.translatedText # EmptyText
    THEN Settled(resp.translatedText, FALSE)
  ELSE Settled(text, FALSE)

\* setIsTranslating(false) at the end of the try block only.
FinallyClear_TryOnly(result, flag) == IF result.failed THEN flag ELSE FALSE

\* isTranslating after translate's finally block.
FinallyClear(result, flag) == FALSE

\* The early return keeping the statements that follow it.
translateStarts_AfterFlags(text) == TRUE

\* Whether translate gets past its first line (text.trim() is not empty) to
\* setIsTranslating(true) and setError(null).
translateStarts(text) == ~IsBlankText(text)

(***************************************************************************)
(* Page controller: handleTranslate                                        *)
(***************************************************************************)

\* handleTranslate without the test for marker text.
handleTranslateReturnsInput_NoMarkerCheck(text, targetLang) ==
  \/ text = EmptyText
  \/ targetLang = ""
  \/ targetLang = "en"

\* The early returns of handleTranslate: no call is made and the text comes
\* back unchanged.
handleTranslateReturnsInput(text, targetLang) ==
  \/ text = EmptyText
  \/ targetLang = ""
  \/ targetLang = "en"
  \/ IncludesNoteMarker(text)
  \/ IncludesRule(text)

NoteUnavailable(targetLang) ==
  <<RuleToken, <<"noteUnavailable", langNameOf(targetLang), "", "en",
                185 + Len(langNameOf(targetLang))>>>>

NoteError(targetLang) ==
  <<RuleToken, <<"noteError", langNameOf(targetLang), "", "en",
                166 + Len(langNameOf(targetLang))>>>>

\* handleTranslate, from the settling of translateText to its return value.
handleTranslate(text, targetLang, result) ==
  IF result.settled = "rejected"
    THEN text \o NoteError(targetLang)
  ELSE IF result.value = EmptyText \/ result.value = text
    THEN text \o NoteUnavailable(targetLang)
  ELSE result.value

(***************************************************************************)
(* Alerts proxy: GET and POST of /api/alerts                               *)
(***************************************************************************)

\* The lists of alerts the monitoring service answers with; an alert is
\* written as its numeric id.
AlertLists == {<< >>, <<1>>, <<2, 3>>}

\* A parsed JSON body: null or an object, whose alerts field is an array,
\* absent, or a value that is not an array.
JsonBody(kind, alertsField, alerts, error) ==
  [kind |-> kind, alertsField |-> alertsField, alerts |-> alerts, error |-> error]

NoBody == JsonBody("", "absent", << >>, "")

\* { alerts: [...] }
AlertsBody(alerts) == JsonBody("object", "array", alerts, "")

\* { alerts: [], error }
ErrorBody(error) == JsonBody("object", "array", << >>, error)

\* { error }
ErrorOnlyBody(error) == JsonBody("object", "absent", << >>, error)

\* What the monitoring service can answer with a 2xx status.
UpstreamBodies ==
  {AlertsBody(list) : list \in AlertLists}
    \cup {JsonBody("object", "absent", << >>, ""),
          JsonBody("object", "other", << >>, ""),
          JsonBody("null", "absent", << >>, "")}

\* The outcome of a fetch of the monitoring service: whether the fetch
\* resolved, the status, whether the body could be read to its end, whether
\* it parsed as JSON, and the parsed body.
Upstream(reached, status, readable, parsed, body) ==
  [reached |-> reached, status |-> status, readable |-> readable,
   parsed |-> parsed, body |-> body]

UpstreamStatuses == {200, 201, 404, 500, 503}

UpstreamAnswers ==
  {Upstream(FALSE, 0, FALSE, FALSE, NoBody)}
    \cup {Upstream(TRUE, status, readable, FALSE, NoBody) :
            status \in UpstreamStatuses, readable \in BOOLEAN}
    \cup {Upstream(TRUE, status, TRUE, TRUE, body) :
            status \in UpstreamStatuses, body \in UpstreamBodies}

\* A response of the proxy.
ProxyResponse(status, body) == [status |-> status, body |-> body]

\* err?.message || 'Internal error': some message, never empty.
ErrorMessage == "Internal error"

\* GET without the test of res.ok.
GET_alerts_NoOkCheck(upstream) ==
  IF ~upstream.reached
    THEN ProxyResponse(500, ErrorBody(ErrorMessage))
  ELSE IF ~upstream.parsed
    THEN ProxyResponse(500, ErrorBody(ErrorMessage))
  ELSE ProxyResponse(200, upstream.body)

\* GET: the whole body is inside the try, so a rejected fetch, a body that
\* cannot be read and a body that is not JSON all end in the catch.
GET_alerts(upstream) ==
  IF ~upstream.reached
    THEN ProxyResponse(500, ErrorBody(ErrorMessage))
  ELSE IF ~IsOk(upstream)
    THEN IF upstream.readable
           THEN ProxyResponse(502, ErrorBody("Bad gateway"))
           ELSE ProxyResponse(500, ErrorBody(ErrorMessage))
  ELSE IF ~upstream.parsed
    THEN ProxyResponse(500, ErrorBody(ErrorMessage))
  ELSE ProxyResponse(200, upstream.body)

\* The keywords field of a request body: absent, a value that is not an
\* array, or an array.
Keywords(kind, items) == [kind |-> kind, items |-> items]

KeywordValues ==
  {Keywords("absent", << >>), Keywords("other", << >>), Keywords("array", << >>),
   Keywords("array", <<"acme">>), Keywords("array", <<"acme", "recall">>)}

\* The interval_seconds field of a request body.
Interval(present, value) == [present |-> present, value |-> value]

IntervalValues == {Interval(FALSE, 0), Interval(TRUE, 0), Interval(TRUE, 60), Interval(TRUE, 300)}

DefaultIntervalSeconds == 300

\* interval_seconds || 300
IntervalOrDefault(interval) ==
  IF ~interval.present \/ interval.value = 0
    THEN DefaultIntervalSeconds
    ELSE interval.value

\* The body of a POST: whether request.json() resolves, whether the value is
\* an object or null, and the two fields read from it.
AlertsRequest(parsed, kind, keywords, interval) ==
  [parsed |-> parsed, kind |-> kind, keywords |-> keywords, interval |-> interval]

AlertsRequests ==
  {AlertsRequest(FALSE, "", Keywords("absent", << >>), Interval(FALSE, 0)),
   AlertsRequest(TRUE, "null", Keywords("absent", << >>), Interval(FALSE, 0))}
    \cup {AlertsRequest(TRUE, "object", keywords, interval) :
            keywords \in KeywordValues, interval \in IntervalValues}

\* The request sent to the monitoring service's start-monitor.
StartMonitor(keywords, interval_seconds, withKey) ==
  [path |-> "/start-monitor", keywords |-> keywords,
   interval_seconds |-> interval_seconds, withKey |-> withKey]

\* !Array.isArray(keywords) || keywords.length === 0
KeywordsRejected(keywords) == keywords.kind # "array" \/ keywords.items = << >>

\* A run of the POST handler: its response and the upstream calls it made.
AlertsPost(response, calls) == [response |-> response, calls |-> calls]

\* POST: reading the body and destructuring it are inside the try, so a body
\* that is not JSON and a null body end in the catch.
POST_alerts(request, hasKey, upstream) ==
  IF ~request.parsed
    THEN AlertsPost(ProxyResponse(500, ErrorOnlyBody(ErrorMessage)), << >>)
  ELSE IF request.kind = "null"
    THEN AlertsPost(ProxyResponse(500, ErrorOnlyBody(ErrorMessage)), << >>)
  ELSE IF KeywordsRejected(request.keywords)
    THEN AlertsPost(ProxyResponse(400, ErrorOnlyBody("Keywords array is required")), << >>)
  ELSE
    LET calls == <<StartMonitor(request.keywords.items,
                                IntervalOrDefault(request.interval), hasKey)>>
    IN  IF ~upstream.reached
          THEN AlertsPost(ProxyResponse(500, ErrorOnlyBody(ErrorMessage)), calls)
        ELSE IF ~IsOk(upstream)
          THEN IF upstream.readable
                 THEN AlertsPost(ProxyResponse(502, ErrorOnlyBody("Failed to start monitor")),
                                 calls)
                 ELSE AlertsPost(ProxyResponse(500, ErrorOnlyBody(ErrorMessage)),
                                 calls)
        ELSE IF ~upstream.parsed
          THEN AlertsPost(ProxyResponse(500, ErrorOnlyBody(ErrorMessage)), calls)
        ELSE AlertsPost(ProxyResponse(200, upstream.body), calls)

\* A request handled by the alerts proxy.
AlertsRun(method, request, hasKey, upstream, response, calls) ==
  [handled |-> method # "", method |-> method, request |-> request, hasKey |-> hasKey,
   upstream |-> upstream, response |-> response, calls |-> calls]

\* No request handled yet.
NoAlertsRun == [handled |-> FALSE, method |-> ""]

\* A GET carries no body.
NoAlertsRequest == AlertsRequest(FALSE, "", Keywords("absent", << >>), Interval(FALSE, 0))

(***************************************************************************)
(* Crisis view: the alerts state of CrisisPredictor and its polling effect *)
(***************************************************************************)

\* Polls issued by one mounted view.
MaxPolls == 3

\* What fetch('/api/alerts') gives the browser: whether the fetch resolved,
\* the status, whether res.json() resolved, and the parsed body.
Fetched(resolved, status, parsed, body) ==
  [resolved |-> resolved, status |-> status, parsed |-> parsed, body |-> body]

NoAnswer == Fetched(FALSE, 0, FALSE, NoBody)

\* The proxy's answers to a poll, a fetch that rejects, and a body that is
\* not JSON (an error page of the hosting platform).
PollAnswers ==
  {Fetched(TRUE, response.status, TRUE, response.body) :
     response \in {GET_alerts(upstream) : upstream \in UpstreamAnswers}}
    \cup {NoAnswer, Fetched(TRUE, 200, FALSE, NoBody), Fetched(TRUE, 500, FALSE, NoBody)}

\* The try block of fetchAlerts throws: the fetch rejects, the status is not
\* 2xx, res.json() rejects, or data is null and data.alerts is read.
Throws(answer) ==
  \/ ~answer.resolved
  \/ ~IsOk(answer)
  \/ ~answer.parsed
  \/ answer.body.kind = "null"

\* The test of data.alerts without the test of its length.
HasAlerts_AnyArray(body) == body.alertsField = "array"

\* Array.isArray(data.alerts) && data.alerts.length > 0
HasAlerts(body) == body.alertsField = "array" /\ Len(body.alerts) > 0

\* The alerts state without the test of mounted.
AlertsAfter_Unguarded(alerts, mounted, answer) ==
  IF ~Throws(answer) /\ HasAlerts(answer.body)
    THEN answer.body.alerts
    ELSE alerts

\* The alerts state after the try block of fetchAlerts.
AlertsAfter(alerts, mounted, answer) ==
  IF ~Throws(answer) /\ mounted /\ HasAlerts(answer.body)
    THEN answer.body.alerts
    ELSE alerts

\* The loading flag cleared at the end of the try block only.
LoadingAfter_TryOnly(loadingAlerts, mounted, answer) ==
  IF mounted /\ ~Throws(answer) THEN FALSE ELSE loadingAlerts

\* The loading flag after the finally block of fetchAlerts.
LoadingAfter(loadingAlerts, mounted, answer) ==
  IF mounted THEN FALSE ELSE loadingAlerts

\* A poll: whether its fetchAlerts call has run to its end, and the answer
\* it got.
Poll(settled, answer) == [settled |-> settled, answer |-> answer]

\* What the last step of the crisis view did.
CrisisEvent(kind, poll) == [kind |-> kind, poll |-> poll]

\* The crisis view: the component's life cycle, the effect's mounted
\* variable, whether the interval is set, the alerts and loadingAlerts state,
\* and the polls in issue order.
Crisis(view, mounted, timer, alerts, loadingAlerts, polls, last) ==
  [view |-> view, mounted |-> mounted, timer |-> timer, alerts |-> alerts,
   loadingAlerts |-> loadingAlerts, polls |-> polls, last |-> last]

\* The view rendered, before its effect has run.
NoCrisis == Crisis("rendered", FALSE, FALSE, << >>, FALSE, << >>, CrisisEvent("init", 0))

(***************************************************************************)
(* Page state                                                              *)
(***************************************************************************)

VARIABLES
  step,                     \* wizard step shown, 1..3
  sourceText,               \* the source textarea
  selectedRegion,
  selectedLanguage,
  generatedText,            \* the text displayed in step 3
  originalGeneratedText,    \* the English narrative
  isTranslating,            \* the page's own flag
  lastTranslatedLang,       \* lastTranslatedLangRef.current
  hasShownTranslationNote,  \* hasShownTranslationNoteRef.current
  hookIsTranslating,        \* useTranslation's isTranslating
  hookError,                \* useTranslation's error is set
  deployment,               \* the deployed route and its environment
  pending,                  \* translate calls awaiting their exchange, in issue order
  renderPending,            \* a render was committed and its effect has not run yet
  userActions,              \* user interactions so far
  budget,                   \* user interactions explored in this session
  event,                    \* what the last step did
  selRun,                   \* the current run of selections of one language
  postRun,                  \* the last request handled by the route, and its run
  alertsRun,                \* the last request handled by the alerts proxy
  crisis                    \* the crisis view: its state, timer and polls in flight

vars ==
  <<step, sourceText, selectedRegion, selectedLanguage, generatedText,
    originalGeneratedText, isTranslating, lastTranslatedLang,
    hasShownTranslationNote, hookIsTranslating, hookError, deployment,
    pending, renderPending, userActions, budget, event, selRun, postRun,
    alertsRun, crisis>>

\* A translate call in flight: who awaits it, the request, and the value of
\* lastTranslatedLangRef.current that the issuing code saw when it decided.
Call(origin, text, lang, guardLast) ==
  [origin |-> origin, text |-> text, lang |-> lang, guardLast |-> guardLast]

NoCall == Call("none", EmptyText, "", "")

Event(kind, call, resp, result, issued) ==
  [kind |-> kind, call |-> call, resp |-> resp, result |-> result, issued |-> issued]

UserEvent(kind, issued) == Event(kind, NoCall, NoResponse, NoResult, issued)

NoRun == [lang |-> "", count |-> 0, calls |-> 0]

\* A request to POST /api/translate.
Request(text, sourceLang, targetLang) ==
  [text |-> text, sourceLang |-> sourceLang, targetLang |-> targetLang]

\* A request handled by the route: the request, the environment (the API key
\* and what the upstream services did), and the run of POST.
\* The body and status of the route's health answer.
Health(httpStatus, status, hasApiKey) ==
  [httpStatus |-> httpStatus, status |-> status, hasApiKey |-> hasApiKey]

NoHealth == Health(0, "", FALSE)

\* export async function GET() of the current route.
GET(hasApiKey) ==
  IF ~hasApiKey
    THEN Health(503, "unhealthy", FALSE)
    ELSE Health(200, "healthy", TRUE)

\* called and contacts are recorded for the current route only.
Post(route, request, hasApiKey, gOut, mOut, run) ==
  [handled |-> route # "", route |-> route,
   method |-> IF route = "" THEN "" ELSE "POST", request |-> request,
   hasApiKey |-> hasApiKey, gOut |-> gOut, mOut |-> mOut,
   response |-> run.response, called |-> run.called, contacts |-> run.contacts,
   health |-> NoHealth]

\* No request handled yet.
NoPost == [handled |-> FALSE, route |-> "", method |-> ""]

RemoveAt(seq, i) == SubSeq(seq, 1, i - 1) \o SubSeq(seq, i + 1, Len(seq))

InitPage ==
  /\ step = 1
  /\ sourceText = ""
  /\ selectedRegion = ""
  /\ selectedLanguage = ""
  /\ generatedText = EmptyText
  /\ originalGeneratedText = EmptyText
  /\ isTranslating = FALSE
  /\ lastTranslatedLang = ""
  /\ hasShownTranslationNote = FALSE
  /\ hookIsTranslating = FALSE
  /\ hookError = FALSE
  /\ pending = << >>
  /\ renderPending = FALSE
  /\ userActions = 0
  /\ event = UserEvent("init", 0)
  /\ selRun = NoRun
  /\ postRun = NoPost
  /\ alertsRun = NoAlertsRun
  /\ crisis = NoCrisis

Init ==
  /\ InitPage
  /\ deployment \in Deployments
  /\ budget = MaxUserActions

\* A user interaction is handled once the effects of the last render have run.
UserCanAct == ~renderPending /\ userActions < budget /\ budget' = budget

(***************************************************************************)
(* Page controller: the auto-translate effect and handleGenerate           *)
(***************************************************************************)

\* The first branch's condition without the lastTranslatedLangRef test.
ShouldAutoTranslate_NoLastCheck(original, language, last) ==
  /\ original # EmptyText
  /\ language # ""
  /\ language # "en"

\* The condition of the effect's first branch.
ShouldAutoTranslate(original, language, last) ==
  /\ original # EmptyText
  /\ language # ""
  /\ language # "en"
  /\ last # language

\* The condition of the effect's second branch.
ShouldShowEnglish(original, language) ==
  language = "en" /\ original # EmptyText

\* translateContent without its first statement.
MarkInFlight_Skip(language, last) == last

\* lastTranslatedLangRef.current after translateContent's first statement.
MarkInFlight(language, last) == language

\* handleGenerate without the reset.
ResetTracking_Keep(last) == last

\* lastTranslatedLangRef.current after handleGenerate's reset.
ResetTracking(last) == ""

\* handleTranslate returns without a network call: its own early returns, or
\* the hook's early return for blank text.
ReturnsAtOnce(text, targetLang) ==
  handleTranslateReturnsInput(text, targetLang) \/ IsBlankText(text)

ValueAtOnce(text, targetLang) ==
  IF handleTranslateReturnsInput(text, targetLang)
    THEN text
    ELSE handleTranslate(text, targetLang, Settled(EmptyText, FALSE))

\* The effect declared with [selectedLanguage, originalGeneratedText,
\* handleTranslate]: handleTranslate depends on the supportedLanguages array
\* built in the component body, so the effect runs after every render.
AutoTranslateEffect ==
  /\ renderPending
  /\ renderPending' = FALSE
  /\ IF ShouldAutoTranslate(originalGeneratedText, selectedLanguage, lastTranslatedLang)
       THEN
         /\ lastTranslatedLang' = MarkInFlight(selectedLanguage, lastTranslatedLang)
         /\ IF ReturnsAtOnce(originalGeneratedText, selectedLanguage)
              THEN
                LET translated == ValueAtOnce(originalGeneratedText, selectedLanguage)
                IN  /\ generatedText' = translated
                    /\ hasShownTranslationNote' = IncludesNoteMarker(translated)
                    /\ event' = Event("effect", NoCall, NoResponse, NoResult, 0)
                    /\ selRun' = selRun
                    /\ UNCHANGED <<pending, isTranslating, hookIsTranslating, hookError>>
              ELSE
                /\ pending' = Append(pending,
                                Call("effect", originalGeneratedText, selectedLanguage,
                                     lastTranslatedLang))
                /\ isTranslating' = TRUE
                /\ hookIsTranslating' = TRUE
                /\ hookError' = FALSE
                /\ hasShownTranslationNote' = FALSE
                /\ event' = Event("effect", NoCall, NoResponse, NoResult, 1)
                /\ selRun' = IF event.kind = "select"
                               THEN [selRun EXCEPT !.calls = @ + 1]
                               ELSE selRun
                /\ UNCHANGED generatedText
       ELSE IF ShouldShowEnglish(originalGeneratedText, selectedLanguage)
         THEN
           /\ generatedText' = originalGeneratedText
           /\ lastTranslatedLang' = "en"
           /\ hasShownTranslationNote' = FALSE
           /\ event' = Event("effect", NoCall, NoResponse, NoResult, 0)
           /\ UNCHANGED <<pending, isTranslating, hookIsTranslating, hookError, selRun>>
       ELSE
         /\ event' = Event("effect", NoCall, NoResponse, NoResult, 0)
         /\ UNCHANGED <<generatedText, lastTranslatedLang, hasShownTranslationNote,
                        pending, isTranslating, hookIsTranslating, hookError, selRun>>
  /\ UNCHANGED <<step, sourceText, selectedRegion, selectedLanguage,
                 originalGeneratedText, deployment, postRun, alertsRun, crisis, userActions, budget>>

\* onChange of the source textarea (step 1).
setSourceText(value) ==
  /\ UserCanAct
  /\ step = 1
  /\ value # sourceText
  /\ sourceText' = value
  /\ renderPending' = TRUE
  /\ userActions' = userActions + 1
  /\ event' = UserEvent("edit", 0)
  /\ UNCHANGED <<step, selectedRegion, selectedLanguage, generatedText,
                 originalGeneratedText, isTranslating, lastTranslatedLang,
                 hasShownTranslationNote, hookIsTranslating, hookError,
                 deployment, postRun, alertsRun, crisis, pending, selRun>>

\* The navigation buttons: Next (step 1, enabled with a source text), Back
\* (step 2) and Modify Parameters (step 3).
setStep(target) ==
  /\ UserCanAct
  /\ \/ step = 1 /\ target = 2 /\ sourceText # ""
     \/ step = 2 /\ target = 1
     \/ step = 3 /\ target = 2
  /\ step' = target
  /\ renderPending' = TRUE
  /\ userActions' = userActions + 1
  /\ event' = UserEvent("navigate", 0)
  /\ UNCHANGED <<sourceText, selectedRegion, selectedLanguage, generatedText,
                 originalGeneratedText, isTranslating, lastTranslatedLang,
                 hasShownTranslationNote, hookIsTranslating, hookError,
                 deployment, postRun, alertsRun, crisis, pending, selRun>>

\* A region button (step 2).
handleRegionChange(region) ==
  /\ UserCanAct
  /\ step = 2
  /\ selectedRegion' = region
  /\ selectedLanguage' = ""
  /\ renderPending' = TRUE
  /\ userActions' = userActions + 1
  /\ event' = UserEvent("region", 0)
  /\ selRun' = NoRun
  /\ UNCHANGED <<step, sourceText, generatedText, originalGeneratedText,
                 isTranslating, lastTranslatedLang, hasShownTranslationNote,
                 hookIsTranslating, hookError, deployment, postRun, alertsRun, crisis, pending>>

\* setSelectedLanguage as a user interaction.  Setting the code that is
\* already selected is a state bail-out; the effect then runs with the next
\* render of any cause, which the step includes.
SelectCode(code) ==
  /\ UserCanAct
  /\ step = 2
  /\ selectedRegion # ""
  /\ selectedLanguage' = code
  /\ renderPending' = TRUE
  /\ userActions' = userActions + 1
  /\ event' = UserEvent("select", 0)
  /\ selRun' = IF selRun.lang = code /\ selectedLanguage = code
                 THEN [selRun EXCEPT !.count = IF @ < 2 THEN @ + 1 ELSE @]
                 ELSE [lang |-> code, count |-> 1, calls |-> 0]
  /\ UNCHANGED <<step, sourceText, selectedRegion, generatedText,
                 originalGeneratedText, isTranslating, lastTranslatedLang,
                 hasShownTranslationNote, hookIsTranslating, hookError,
                 deployment, postRun, alertsRun, crisis, pending>>

\* A language button of the selected region (step 2).
setSelectedLanguage(code) ==
  /\ code \in availableLanguages(selectedRegion)
  /\ SelectCode(code)

\* The Generate button (step 2, enabled with a region and a media type; a
\* media type is taken as chosen).
handleGenerate ==
  /\ UserCanAct
  /\ step = 2
  /\ selectedRegion # ""
  /\ userActions' = userActions + 1
  /\ selRun' = NoRun
  /\ IF IsBlankSource(sourceText)
       THEN \* alert("Please enter source text first.")
         /\ event' = UserEvent("generate", 0)
         /\ UNCHANGED <<step, generatedText, originalGeneratedText, isTranslating,
                        lastTranslatedLang, hasShownTranslationNote,
                        hookIsTranslating, hookError, pending, renderPending>>
       ELSE
         LET englishNarrative == generateNarrative(sourceText, selectedRegion)
         IN
         /\ originalGeneratedText' = englishNarrative
         /\ renderPending' = TRUE
         /\ IF selectedLanguage # "" /\ selectedLanguage # "en"
              THEN
                IF ReturnsAtOnce(englishNarrative, selectedLanguage)
                  THEN
                    LET translated == ValueAtOnce(englishNarrative, selectedLanguage)
                    IN  /\ generatedText' = translated
                        /\ lastTranslatedLang' = selectedLanguage
                        /\ hasShownTranslationNote' = IncludesNoteMarker(translated)
                        /\ isTranslating' = FALSE
                        /\ step' = 3
                        /\ event' = UserEvent("generate", 0)
                        /\ UNCHANGED <<pending, hookIsTranslating, hookError>>
                  ELSE
                    /\ lastTranslatedLang' = ResetTracking(lastTranslatedLang)
                    /\ hasShownTranslationNote' = FALSE
                    /\ isTranslating' = TRUE
                    /\ hookIsTranslating' = TRUE
                    /\ hookError' = FALSE
                    /\ pending' = Append(pending,
                                    Call("generate", englishNarrative, selectedLanguage,
                                         ResetTracking(lastTranslatedLang)))
                    /\ event' = UserEvent("generate", 1)
                    /\ UNCHANGED <<step, generatedText>>
              ELSE
                /\ generatedText' = englishNarrative
                /\ lastTranslatedLang' = "en"
                /\ hasShownTranslationNote' = FALSE
                /\ step' = 3
                /\ event' = UserEvent("generate", 0)
                /\ UNCHANGED <<pending, isTranslating, hookIsTranslating, hookError>>
  /\ UNCHANGED <<sourceText, selectedRegion, selectedLanguage, deployment, postRun, alertsRun, crisis>>

\* The exchange of the i-th call in flight completes: the hook's translate
\* settles, handleTranslate returns, and the awaiting code (translateContent of
\* the effect, or handleGenerate) continues to its end.
Resolve(i, responses) ==
  /\ ~renderPending
  /\ i \in DOMAIN pending
  /\ pending' = RemoveAt(pending, i)
  /\ renderPending' = TRUE
  /\ \E resp \in responses :
       LET call == pending[i]
           result == translate(call.text, resp)
           translated == handleTranslate(call.text, call.lang, result)
       IN  /\ hookIsTranslating' = FinallyClear(result, hookIsTranslating)
           /\ hookError' = IF result.failed THEN TRUE ELSE hookError
           /\ isTranslating' = FALSE
           /\ generatedText' = translated
           /\ hasShownTranslationNote' =
                IF IncludesNoteMarker(translated) THEN TRUE ELSE hasShownTranslationNote
           /\ IF call.origin = "generate"
                THEN /\ lastTranslatedLang' = call.lang
                     /\ step' = 3
                ELSE UNCHANGED <<lastTranslatedLang, step>>
           /\ event' = Event("resolve", call, resp, result, 0)
  /\ UNCHANGED <<sourceText, selectedRegion, selectedLanguage,
                 originalGeneratedText, deployment, postRun, alertsRun, crisis, userActions, budget, selRun>>

\* Some exchange in flight completes, in any order, with any outcome the
\* deployed route and the network can produce.
ResolveSome ==
  \E i \in 1..Len(pending) :
    Resolve(i, Exchanges(deployment, pending[i].text, "en", pending[i].lang))

Next ==
  \/ AutoTranslateEffect
  \/ \E value \in SourceTexts : setSourceText(value)
  \/ \E target \in 1..3 : setStep(target)
  \/ \E region \in RegionNames : handleRegionChange(region)
  \/ \E code \in DOMAIN supportedLanguages : setSelectedLanguage(code)
  \/ handleGenerate
  \/ ResolveSome

Spec == Init /\ [][Next]_vars

\* The same page with an English entry among the language buttons.
SelectEnglish == SelectCode("en")

NextEn == Next \/ SelectEnglish

SpecEn == Init /\ [][NextEn]_vars

(***************************************************************************)
(* Scheduling: a committed render's effect runs, and an exchange in flight *)
(* completes (with a response or a failure).                               *)
(***************************************************************************)

\* The route that app/api/translate/route.ts holds: the Google route, with
\* its API key configured.
Deployed == [route |-> "google", configured |-> TRUE]

LiveInit ==
  /\ InitPage
  /\ deployment = Deployed
  /\ budget = MaxUserActions

LiveSpec ==
  /\ LiveInit
  /\ [][Next]_vars
  /\ WF_vars(AutoTranslateEffect)
  /\ WF_vars(ResolveSome)

\* Longer sessions against the deployed route.
LongInit ==
  /\ InitPage
  /\ deployment = Deployed
  /\ budget = MaxLongActions

LongSpec == LongInit /\ [][Next]_vars

Quiescent == pending = << >> /\ ~renderPending

(***************************************************************************)
(* The deployed route with both providers down: Google answers with an     *)
(* error status and MyMemory cannot be reached, so every exchange is the   *)
(* degraded response.                                                      *)
(***************************************************************************)

MaxDownActions == 8

ExchangesDown(dep, text, sourceLang, targetLang) ==
  {POST(text, sourceLang, targetLang, dep.configured, "httpError", "networkError")}

ResolveDown ==
  \E i \in 1..Len(pending) :
    Resolve(i, ExchangesDown(deployment, pending[i].text, "en", pending[i].lang))

DownInit ==
  /\ InitPage
  /\ deployment = Deployed
  /\ budget = MaxDownActions

DownNext ==
  \/ AutoTranslateEffect
  \/ \E value \in SourceTexts : setSourceText(value)
  \/ \E target \in 1..3 : setStep(target)
  \/ \E region \in RegionNames : handleRegionChange(region)
  \/ \E code \in DOMAIN supportedLanguages : setSelectedLanguage(code)
  \/ handleGenerate
  \/ ResolveDown

DownSpec == DownInit /\ [][DownNext]_vars

(***************************************************************************)
(* The hook used on its own: translate called with any text, its exchanges *)
(* completing in any order.                                                *)
(***************************************************************************)

\* Calls of translate in flight together.
MaxCalls == 2

\* Texts passed to translate: empty, whitespace only, and a short text.
HookTexts ==
  { EmptyText,
    << <<"space", "", "", "en", 3>> >>,
    << <<"chars", "hello", "", "en", 11>> >> }

\* translate(text, 'en', targetLang) up to its fetch.
translateCall(text, targetLang) ==
  /\ Len(pending) < MaxCalls
  /\ LET call == Call("direct", text, targetLang, "")
     IN  IF translateStarts(text)
           THEN /\ hookIsTranslating' = TRUE
                /\ hookError' = FALSE
                /\ pending' = Append(pending, call)
                /\ event' = Event("translate", call, NoResponse, NoResult, 1)
           ELSE /\ event' = Event("translate", call, NoResponse,
                                  Settled(EmptyText, FALSE), 0)
                /\ UNCHANGED <<hookIsTranslating, hookError, pending>>
  /\ UNCHANGED <<step, sourceText, selectedRegion, selectedLanguage, generatedText,
                 originalGeneratedText, isTranslating, lastTranslatedLang,
                 hasShownTranslationNote, deployment, renderPending, userActions,
                 budget, selRun, postRun, alertsRun, crisis>>

\* The exchange of the i-th call completes and translate returns.
translateSettles(i, resp) ==
  /\ i \in DOMAIN pending
  /\ LET call == pending[i]
         result == translate(call.text, resp)
     IN  /\ hookIsTranslating' = FinallyClear(result, hookIsTranslating)
         /\ hookError' = IF result.failed THEN TRUE ELSE hookError
         /\ event' = Event("settle", call, resp, result, 0)
  /\ pending' = RemoveAt(pending, i)
  /\ UNCHANGED <<step, sourceText, selectedRegion, selectedLanguage, generatedText,
                 originalGeneratedText, isTranslating, lastTranslatedLang,
                 hasShownTranslationNote, deployment, renderPending, userActions,
                 budget, selRun, postRun, alertsRun, crisis>>

translateSettlesSome ==
  \E i \in 1..Len(pending) :
    \E resp \in Exchanges(deployment, pending[i].text, "en", pending[i].lang) :
      translateSettles(i, resp)

HookInit ==
  /\ InitPage
  /\ deployment \in Deployments
  /\ budget = 0

HookNext ==
  \/ \E text \in HookTexts, targetLang \in {"mr", "gu"} : translateCall(text, targetLang)
  \/ translateSettlesSome

HookSpec == HookInit /\ [][HookNext]_vars

(***************************************************************************)
(* The route on its own: POST /api/translate of the current route handling *)
(* any request, with the upstream services answering in any way.           *)
(***************************************************************************)

\* Request texts: absent or empty, whitespace only, and texts around the two
\* providers' limits, one of them in two pieces.
RouteTexts ==
  { EmptyText,
    << <<"space", "", "", "en", 3>> >>,
    << <<"chars", "a", "", "en", 11>> >>,
    << <<"chars", "a", "", "en", MyMemoryMaxChars>> >>,
    << <<"chars", "a", "", "en", MyMemoryMaxChars + 1>> >>,
    << <<"chars", "a", "", "en", 300>>, <<"chars", "b", "", "en", 300>> >>,
    << <<"chars", "a", "", "en", GoogleMaxChars>> >>,
    << <<"chars", "a", "", "en", GoogleMaxChars + 1>> >> }

\* Language fields: absent or empty, catalog codes, a code only
\* LANGUAGE_NAMES has, a code in neither table, an inherited key.
RouteLanguages == {"", "en", "mr", "dcc", "fr", "constructor"}

\* export async function POST(req) of the current route.  The route keeps
\* no state between requests, so a behaviour handles one request.
POSTRequest(text, sourceLang, targetLang, hasApiKey, gOut, mOut) ==
  /\ ~postRun.handled
  /\ deployment.route = "google"
  /\ postRun' = Post("google", Request(text, sourceLang, targetLang), hasApiKey, gOut, mOut,
                     POST_run(text, sourceLang, targetLang,
                              translateWithGoogleAPI(text, sourceLang, targetLang,
                                                     hasApiKey, gOut),
                              translateWithMyMemory(text, sourceLang, targetLang, mOut)))
  /\ UNCHANGED <<step, sourceText, selectedRegion, selectedLanguage, generatedText,
                 originalGeneratedText, isTranslating, lastTranslatedLang,
                 hasShownTranslationNote, hookIsTranslating, hookError, deployment,
                 pending, renderPending, userActions, budget, event, selRun,
                 alertsRun, crisis>>

\* A GET request to the current route.
GETRequest(hasApiKey) ==
  /\ ~postRun.handled
  /\ deployment.route = "google"
  /\ postRun' = [Post("google", Request(EmptyText, "", ""), hasApiKey, "", "",
                      Run(NoResponse, << >>, << >>))
                   EXCEPT !.method = "GET", !.health = GET(hasApiKey)]
  /\ UNCHANGED <<step, sourceText, selectedRegion, selectedLanguage, generatedText,
                 originalGeneratedText, isTranslating, lastTranslatedLang,
                 hasShownTranslationNote, hookIsTranslating, hookError, deployment,
                 pending, renderPending, userActions, budget, event, selRun,
                 alertsRun, crisis>>

\* export async function POST(req) of the two earlier routes.
LegacyPOSTRequest(text, sourceLang, targetLang, usePythonService, pyOut, mOut) ==
  /\ ~postRun.handled
  /\ deployment.route # "google"
  /\ postRun' =
       Post(deployment.route, Request(text, sourceLang, targetLang), FALSE, pyOut, mOut,
            Run(IF deployment.route = "indictrans"
                  THEN POST_indictrans(text, sourceLang, targetLang, usePythonService, pyOut)
                  ELSE POST_cloud(text, sourceLang, targetLang, usePythonService, pyOut, mOut),
                << >>, << >>))
  /\ UNCHANGED <<step, sourceText, selectedRegion, selectedLanguage, generatedText,
                 originalGeneratedText, isTranslating, lastTranslatedLang,
                 hasShownTranslationNote, hookIsTranslating, hookError, deployment,
                 pending, renderPending, userActions, budget, event, selRun,
                 alertsRun, crisis>>

RouteInit ==
  /\ InitPage
  /\ deployment \in Deployments
  /\ budget = 0

\* The route keeps no state between requests, so a behaviour handles one
\* request.
HandleRequest ==
  /\ ~postRun.handled
  /\ \E text \in RouteTexts, sourceLang \in RouteLanguages, targetLang \in RouteLanguages :
       \E gOut \in GoogleOutcomes, mOut \in MyMemoryOutcomes :
         POSTRequest(text, sourceLang, targetLang, deployment.configured, gOut, mOut)

HandleLegacyRequest ==
  /\ ~postRun.handled
  /\ \E text \in RouteTexts, sourceLang \in RouteLanguages, targetLang \in RouteLanguages :
       \E pyOut \in PythonOutcomes, mOut \in MyMemoryOutcomes :
         LegacyPOSTRequest(text, sourceLang, targetLang, deployment.configured, pyOut, mOut)

HandleHealthRequest == GETRequest(deployment.configured)

RouteNext == HandleRequest \/ HandleLegacyRequest \/ HandleHealthRequest

RouteSpec == RouteInit /\ [][RouteNext]_vars

(***************************************************************************)
(* Alerts proxy requests                                                   *)
(***************************************************************************)

\* GET /api/alerts, with OBSEI_API_KEY set or not.
AlertsGETRequest(hasKey, upstream) ==
  /\ alertsRun' = AlertsRun("GET", NoAlertsRequest, hasKey, upstream,
                            GET_alerts(upstream), << >>)
  /\ UNCHANGED <<step, sourceText, selectedRegion, selectedLanguage, generatedText,
                 originalGeneratedText, isTranslating, lastTranslatedLang,
                 hasShownTranslationNote, hookIsTranslating, hookError, deployment,
                 pending, renderPending, userActions, budget, event, selRun,
                 postRun, crisis>>

\* POST /api/alerts.
AlertsPOSTRequest(request, hasKey, upstream) ==
  /\ alertsRun' =
       LET run == POST_alerts(request, hasKey, upstream)
       IN  AlertsRun("POST", request, hasKey, upstream, run.response, run.calls)
  /\ UNCHANGED <<step, sourceText, selectedRegion, selectedLanguage, generatedText,
                 originalGeneratedText, isTranslating, lastTranslatedLang,
                 hasShownTranslationNote, hookIsTranslating, hookError, deployment,
                 pending, renderPending, userActions, budget, event, selRun,
                 postRun, crisis>>

AlertsInit ==
  /\ InitPage
  /\ deployment = Deployed
  /\ budget = 0

\* The proxy keeps no state between requests, so a behaviour handles one
\* request.
HandleAlertsGET ==
  /\ ~alertsRun.handled
  /\ \E hasKey \in BOOLEAN, upstream \in UpstreamAnswers :
       AlertsGETRequest(hasKey, upstream)

HandleAlertsPOST ==
  /\ ~alertsRun.handled
  /\ \E request \in AlertsRequests, hasKey \in BOOLEAN, upstream \in UpstreamAnswers :
       AlertsPOSTRequest(request, hasKey, upstream)

AlertsNext == HandleAlertsGET \/ HandleAlertsPOST

AlertsSpec == AlertsInit /\ [][AlertsNext]_vars

(***************************************************************************)
(* Crisis view steps                                                       *)
(***************************************************************************)

\* fetchAlerts up to its await: setLoadingAlerts(true) and the fetch.
StartPoll(kind, view, mounted) ==
  /\ crisis' = Crisis(view, mounted, TRUE, crisis.alerts, TRUE,
                      Append(crisis.polls, Poll(FALSE, NoAnswer)),
                      CrisisEvent(kind, Len(crisis.polls) + 1))
  /\ UNCHANGED <<step, sourceText, selectedRegion, selectedLanguage, generatedText,
                 originalGeneratedText, isTranslating, lastTranslatedLang,
                 hasShownTranslationNote, hookIsTranslating, hookError, deployment,
                 pending, renderPending, userActions, budget, event, selRun,
                 postRun, alertsRun>>

\* The effect runs once after the first render: mounted is set, fetchAlerts is
\* called and the interval is set.
Mount ==
  /\ crisis.view = "rendered"
  /\ StartPoll("mount", "mounted", TRUE)

\* The interval calls fetchAlerts, whether or not earlier polls have settled.
TimerFires ==
  /\ crisis.timer
  /\ Len(crisis.polls) < MaxPolls
  /\ StartPoll("timer", crisis.view, crisis.mounted)

\* fetchAlerts from its await to its end, for the poll issued i-th.
PollSettles(i, answer) ==
  /\ ~crisis.polls[i].settled
  /\ crisis' = [crisis EXCEPT
       !.alerts = AlertsAfter(crisis.alerts, crisis.mounted, answer),
       !.loadingAlerts = LoadingAfter(crisis.loadingAlerts, crisis.mounted, answer),
       !.polls[i] = Poll(TRUE, answer),
       !.last = CrisisEvent("settle", i)]
  /\ UNCHANGED <<step, sourceText, selectedRegion, selectedLanguage, generatedText,
                 originalGeneratedText, isTranslating, lastTranslatedLang,
                 hasShownTranslationNote, hookIsTranslating, hookError, deployment,
                 pending, renderPending, userActions, budget, event, selRun,
                 postRun, alertsRun>>

SettleSome ==
  \E i \in 1..Len(crisis.polls) : \E answer \in PollAnswers : PollSettles(i, answer)

\* The effect's cleanup: mounted = false and clearInterval(id).
Unmount ==
  /\ crisis.view = "mounted"
  /\ crisis' = [crisis EXCEPT !.view = "unmounted", !.mounted = FALSE, !.timer = FALSE,
                              !.last = CrisisEvent("unmount", 0)]
  /\ UNCHANGED <<step, sourceText, selectedRegion, selectedLanguage, generatedText,
                 originalGeneratedText, isTranslating, lastTranslatedLang,
                 hasShownTranslationNote, hookIsTranslating, hookError, deployment,
                 pending, renderPending, userActions, budget, event, selRun,
                 postRun, alertsRun>>

CrisisInit ==
  /\ InitPage
  /\ deployment = Deployed
  /\ budget = 0

CrisisNext == Mount \/ TimerFires \/ SettleSome \/ Unmount

CrisisSpec == CrisisInit /\ [][CrisisNext]_vars

(***************************************************************************)
(* Properties                                                              *)
(***************************************************************************)

\* C1: a resolution for a language that is no longer selectedLanguage does not
\* change the displayed text.  With language B selected and marked as the
\* language being translated, the completion of a call issued for another
\* language A leaves generatedText as it was.
C1_StaleResolutionDiscarded ==
  [][ ( /\ event'.kind = "resolve"
        /\ selectedLanguage \notin {"", "en"}
        /\ lastTranslatedLang = selectedLanguage
        /\ event'.call.lang # selectedLanguage )
      => generatedText' = generatedText ]_vars

\* A rendering of the English original for a language: the original itself
\* for 'en', otherwise its translation or the original followed by one note.
IsRenderingOf(text, original, language) ==
  IF language = "en"
    THEN text = original
    ELSE \/ text = Translated(original, language)
         \/ /\ IsOverLimit(original, MyMemoryMaxChars)
            /\ text \in {Translated(truncated(original), language) \o note :
                           note \in {TruncationNoteMyMemory, TruncationNoteCloud}}
         \/ text = original \o NoteUnavailable(language)
         \/ text = original \o NoteError(language)

\* C2: whenever selectedLanguage equals lastTranslatedLang, nothing is in
\* flight and the effects have run, the displayed text is a rendering of the
\* current original for that language.  (Stated for an original that quotes no
\* note line, which handleTranslate would return untranslated.)
C2_DisplayedConsistent ==
  ( /\ selectedLanguage = lastTranslatedLang
    /\ selectedLanguage # ""
    /\ pending = << >>
    /\ ~renderPending
    /\ originalGeneratedText # EmptyText
    /\ ~IncludesNoteMarker(originalGeneratedText) )
  => IsRenderingOf(generatedText, originalGeneratedText, selectedLanguage)

\* C3: no two translate calls for the same target language and the same
\* English text are in flight together.
C3_NoDuplicateInFlight ==
  \A i, j \in DOMAIN pending :
    i # j => ~(pending[i].lang = pending[j].lang /\ pending[i].text = pending[j].text)

\* C4: every call in flight was issued for a non-empty English text and a
\* non-empty, non-English language that differed from the lastTranslatedLang
\* value seen by the code that decided to issue it.
C4_IssuedUnderGuard ==
  \A i \in DOMAIN pending :
    /\ pending[i].text # EmptyText
    /\ pending[i].lang \notin {"", "en"}
    /\ pending[i].guardLast # pending[i].lang

\* Reached: a call issued by handleGenerate and a call issued by the effect are
\* in flight.
C4_Witness ==
  \E i, j \in DOMAIN pending :
    pending[i].origin = "generate" /\ pending[j].origin = "effect"

\* C5: once the user stops and every exchange completes, the controller
\* reaches a state with nothing in flight and no effect to run, and stays
\* there: only finitely many calls are issued.
C5_Quiesces == <>[]Quiescent

\* Reached: the session is over, a translation was fetched and displayed for
\* the selected language, and nothing is in flight.
C5_Witness ==
  /\ Quiescent
  /\ userActions = budget
  /\ selectedLanguage \notin {"", "en"}
  /\ lastTranslatedLang = selectedLanguage
  /\ generatedText = Translated(originalGeneratedText, selectedLanguage)
  /\ generatedText # EmptyText

\* C6: within a run of selections of one language, with no regeneration,
\* region change or other language in between, the selections issue at most
\* one translate call in total.
C6_SelectTwiceOneCall == selRun.calls <= 1

\* Reached: a language was selected twice in succession, the first selection
\* issued a call, and the effect after the second selection has run.
C6_Witness ==
  /\ selRun.count = 2
  /\ selRun.calls = 1
  /\ ~renderPending
  /\ event.kind = "effect"

IsFailedExchange(resp) == resp.net = "fail" \/ ~IsOk(resp) \/ ~resp.json

\* C8: translate always resolves; for a failed exchange it resolves with the
\* input text and sets the error flag, whatever translatedText the body has.
C8_FailureReturnsInput ==
  event.kind = "resolve" =>
    /\ event.result.settled = "resolved"
    /\ IsFailedExchange(event.resp) =>
         /\ event.result.value = event.call.text
         /\ event.result.failed
         /\ hookError

\* Reached: a 500 response whose body carries a translatedText was answered
\* with the input text.
C8_Witness ==
  /\ event.kind = "resolve"
  /\ event.resp.status = 500
  /\ event.resp.hasText
  /\ event.resp.translatedText # event.call.text
  /\ event.result.value = event.call.text
  /\ hookError

\* C9: the degraded response (status 503, isFallback true, source 'none') is
\* answered with the input text without recording an error.
C9_DegradedIsNotAnError ==
  ( /\ event.kind = "resolve"
    /\ event.resp.net = "ok"
    /\ event.resp.status = 503
    /\ event.resp.json
    /\ event.resp.isFallback
    /\ event.resp.source = "none" )
  => /\ event.result.value = event.call.text
     /\ ~event.result.failed

\* C10: for a 2xx JSON response translate returns the input text when the body
\* has isFallback true and source 'none', else the body's translatedText when
\* non-empty, else the input text; its result is never empty and is always the
\* input text or the translatedText of a 2xx body.
C10_ResultFrom2xx ==
  event.kind = "resolve" =>
    LET resp == event.resp
        text == event.call.text
        value == event.result.value
        fromBody == IsOk(resp) /\ resp.json /\ resp.hasText /\ value = resp.translatedText
    IN  /\ (IsOk(resp) /\ resp.json) =>
              value = IF resp.isFallback /\ resp.source = "none" THEN text
                      ELSE IF resp.hasText /\ resp.translatedText # EmptyText
                        THEN resp.translatedText
                      ELSE text
        /\ value # EmptyText
        /\ value = text \/ fromBody

\* Reached: a 2xx response with isFallback true and source 'none' was answered
\* with the input text.
C10_Witness ==
  /\ event.kind = "resolve"
  /\ IsOk(event.resp)
  /\ event.resp.isFallback
  /\ event.resp.source = "none"
  /\ event.result.value = event.call.text
  /\ ~event.result.failed

\* C11: whenever no translate call is in flight, the hook's isTranslating flag
\* is false.
C11_IdleHookNotBusy == pending = << >> => ~hookIsTranslating

\* Reached: the only call in flight failed in transport and nothing is in
\* flight any more.
C11_Witness ==
  /\ pending = << >>
  /\ event.kind = "resolve"
  /\ event.resp.net = "fail"
  /\ event.result.failed

\* C12: translate called with empty or whitespace-only text resolves with the
\* empty string, issues no request, and leaves isTranslating and the error
\* flag as they were.
C12_BlankTextIsNoCall ==
  [][ \A text \in HookTexts, targetLang \in {"mr", "gu"} :
        (translateCall(text, targetLang) /\ IsBlankText(text)) =>
          /\ event'.result = Settled(EmptyText, FALSE)
          /\ pending' = pending
          /\ hookIsTranslating' = hookIsTranslating
          /\ hookError' = hookError ]_vars

\* Reached: translate was called with whitespace-only text while another call
\* was in flight and the error flag was set by an earlier failure; it resolved
\* with the empty string and the error flag is still set.
C12_Witness ==
  /\ event.kind = "translate"
  /\ event.call.text # EmptyText
  /\ IsBlankText(event.call.text)
  /\ event.result = Settled(EmptyText, FALSE)
  /\ Len(pending) = 1
  /\ hookError

\* The request of the last POST, and what its provider calls returned.
HasAllFields(request) ==
  request.text # EmptyText /\ request.sourceLang # "" /\ request.targetLang # ""

ReachesProviders(post) ==
  /\ post.handled
  /\ post.route = "google"
  /\ post.method = "POST"
  /\ HasAllFields(post.request)
  /\ post.request.sourceLang # post.request.targetLang

GoogleAttempt(post) ==
  translateWithGoogleAPI(post.request.text, post.request.sourceLang,
                         post.request.targetLang, post.hasApiKey, post.gOut)

MyMemoryAttempt(post) ==
  translateWithMyMemory(post.request.text, post.request.sourceLang,
                        post.request.targetLang, post.mOut)

Contacted(post, provider) ==
  \E i \in DOMAIN post.contacts : post.contacts[i].provider = provider

\* Provider B's precondition: the source is English and the target is a
\* code of the language catalog.
FallbackPrecondition(request) ==
  request.sourceLang = "en" /\ request.targetLang \in LANGUAGE_NAMES

\* C13: whenever Provider A does not produce a translation (no API key, an
\* unmapped code, a transport error or timeout, a non-2xx status, an error
\* payload, an empty translation), the response is not the 500 error response
\* and Provider B is called when its precondition holds.
C13_GoogleFailureIsSoft ==
  (ReachesProviders(postRun) /\ ~GoogleAttempt(postRun).ok) =>
    /\ postRun.response.status # 500
    /\ FallbackPrecondition(postRun.request) => postRun.called = <<"google", "mymemory">>

\* C14: Provider B is contacted only after Provider A was called and failed
\* in the same request, and only for an English source and a target of the
\* language catalog; when Provider A returns a translation the response is
\* 200 with source 'google' and Provider B is not contacted.
C14_FallbackOnlyAfterPrimary ==
  ReachesProviders(postRun) =>
    /\ Contacted(postRun, "mymemory") =>
         /\ postRun.called = <<"google", "mymemory">>
         /\ ~GoogleAttempt(postRun).ok
         /\ FallbackPrecondition(postRun.request)
    /\ GoogleAttempt(postRun).ok =>
         /\ postRun.response.status = 200
         /\ postRun.response.source = "google"
         /\ ~Contacted(postRun, "mymemory")

\* C15: when Provider A fails and Provider B fails or its precondition does
\* not hold, the response is 503 with translatedText equal to the request
\* text, timeMs 0, isFallback true, source 'none' and a note naming the target
\* language.
C15_DegradedResponse ==
  ( /\ ReachesProviders(postRun)
    /\ ~GoogleAttempt(postRun).ok
    /\ ~FallbackPrecondition(postRun.request) \/ ~MyMemoryAttempt(postRun).ok )
  => /\ postRun.response.status = 503
     /\ postRun.response.hasText
     /\ postRun.response.translatedText = postRun.request.text
     /\ postRun.response.timeMs = "zero"
     /\ postRun.response.isFallback
     /\ postRun.response.source = "none"
     /\ postRun.response.note = "unavailable"
     /\ postRun.response.noteNames = postRun.request.targetLang

\* C16: for every request with text, sourceLang and targetLang present, and
\* for each of the three routes, the response body has a non-empty
\* translatedText.
C16_TranslatedTextPopulated ==
  (postRun.handled /\ HasAllFields(postRun.request)) =>
    /\ postRun.response.hasText
    /\ postRun.response.translatedText # EmptyText

\* C17: a request with non-empty text whose sourceLang equals its targetLang
\* is answered 200 with translatedText equal to the text, timeMs 0 and source
\* 'noop', and no provider is called or contacted.
C17_SameLanguageIsNoop ==
  ( /\ postRun.handled
    /\ postRun.route = "google"
    /\ HasAllFields(postRun.request)
    /\ postRun.request.sourceLang = postRun.request.targetLang )
  => /\ postRun.response.status = 200
     /\ postRun.response.hasText
     /\ postRun.response.translatedText = postRun.request.text
     /\ postRun.response.timeMs = "zero"
     /\ postRun.response.source = "noop"
     /\ postRun.called = << >>
     /\ postRun.contacts = << >>

C17_Witness ==
  /\ postRun.handled
  /\ postRun.route = "google"
  /\ postRun.request.text # EmptyText
  /\ postRun.request.sourceLang = "mr"
  /\ postRun.request.targetLang = "mr"
  /\ postRun.hasApiKey
  /\ postRun.gOut = "translated"
  /\ postRun.response.source = "noop"

TruncationNotesIn(text) ==
  {text[i][2] : i \in {j \in DOMAIN text : text[j][1] = "noteTruncated"}}

LimitOf(provider) == IF provider = "google" THEN GoogleMaxChars ELSE MyMemoryMaxChars

Min(a, b) == IF a < b THEN a ELSE b

\* C19: the text sent to a provider with limit L (4500 for Provider A, 500 for
\* Provider B) is the first min(length, L) characters of the request text,
\* and the translation that provider returns carries a truncation note,
\* stating L, exactly when the request text is longer than L.
C19_TruncationAtLimit ==
  (postRun.handled /\ postRun.route = "google") =>
    /\ \A i \in DOMAIN postRun.contacts :
         postRun.contacts[i].q =
           Slice(postRun.request.text,
                 Min(Length(postRun.request.text), LimitOf(postRun.contacts[i].provider)))
    /\ postRun.response.source = "google" =>
         TruncationNotesIn(postRun.response.translatedText) =
           IF Length(postRun.request.text) > GoogleMaxChars THEN {"4,500"} ELSE {}
    /\ postRun.response.source = "cloud-fallback" =>
         TruncationNotesIn(postRun.response.translatedText) =
           IF Length(postRun.request.text) > MyMemoryMaxChars THEN {"500"} ELSE {}

C19_Witness ==
  /\ postRun.handled
  /\ postRun.route = "google"
  /\ Length(postRun.request.text) = GoogleMaxChars + 1
  /\ postRun.response.source = "google"
  /\ Len(postRun.contacts) = 1
  /\ Length(postRun.contacts[1].q) = GoogleMaxChars
  /\ postRun.contacts[1].q # postRun.request.text
  /\ TruncationNotesIn(postRun.response.translatedText) = {"4,500"}

\* The diagnostic notes handleTranslate appended to a text.
NoteCount(text) ==
  Cardinality({i \in DOMAIN text : text[i][1] \in {"noteUnavailable", "noteError"}})

StartsWith(text, prefix) ==
  Len(prefix) <= Len(text) /\ SubSeq(text, 1, Len(prefix)) = prefix

\* C20: the displayed text never contains more than one diagnostic note;
\* with both providers down, a language other than English selected and
\* every translation resolved, the displayed text starts with the current
\* original and contains exactly one diagnostic note, also after language
\* switches and regenerations.  (Stated for an original that quotes no note
\* line, which handleTranslate returns as it is.)
C20_OneNoteAfterOriginal ==
  /\ NoteCount(generatedText) <= 1
  /\ ( /\ Quiescent
       /\ selectedLanguage \notin {"", "en"}
       /\ lastTranslatedLang = selectedLanguage
       /\ originalGeneratedText # EmptyText
       /\ ~IncludesNoteMarker(originalGeneratedText) )
     => /\ StartsWith(generatedText, originalGeneratedText)
        /\ NoteCount(generatedText) = 1

\* text.includes(...) of one of handleTranslate's sentinel markers.
CarriesMarker(text) == IncludesNoteMarker(text) \/ IncludesRule(text)

\* C21: no call in flight was issued for a text that carries a marker; and
\* when the effect or handleGenerate passes such a text to handleTranslate
\* for a language other than English, the text is displayed unchanged and no
\* call is added, and in the effect, which does not touch the flags itself,
\* the translating flags keep their values.
C21_MarkedTextNotSent ==
  /\ [](\A i \in DOMAIN pending : ~CarriesMarker(pending[i].text))
  /\ [][ /\ ( /\ renderPending /\ ~renderPending'
              /\ CarriesMarker(originalGeneratedText)
              /\ ShouldAutoTranslate(originalGeneratedText, selectedLanguage,
                                     lastTranslatedLang) )
            => /\ pending' = pending
               /\ generatedText' = originalGeneratedText
               /\ isTranslating' = isTranslating
               /\ hookIsTranslating' = hookIsTranslating
         /\ ( /\ event'.kind = "generate" /\ userActions' # userActions
              /\ CarriesMarker(originalGeneratedText')
              /\ selectedLanguage \notin {"", "en"} )
            => /\ pending' = pending
               /\ generatedText' = originalGeneratedText' ]_vars

C21_Witness ==
  /\ event.kind = "effect"
  /\ CarriesMarker(originalGeneratedText)
  /\ selectedLanguage \notin {"", "en"}
  /\ lastTranslatedLang = selectedLanguage
  /\ generatedText = originalGeneratedText
  /\ pending = << >>
  /\ ~isTranslating

\* C27: without GOOGLE_TRANSLATE_API_KEY a request that reaches the
\* providers sends nothing to Google and is never answered 500: it is answered
\* 200 through MyMemory when the source is English, the target is in the
\* catalog and MyMemory succeeds, and with the degraded 503 response otherwise;
\* GET answers 503 with status 'unhealthy' and hasApiKey false.
C27_NoKeyDegradesGracefully ==
  (postRun.handled /\ postRun.route = "google" /\ ~postRun.hasApiKey) =>
    /\ ReachesProviders(postRun) =>
         /\ ~Contacted(postRun, "google")
         /\ postRun.response.status # 500
         /\ IF FallbackPrecondition(postRun.request) /\ MyMemoryAttempt(postRun).ok
              THEN /\ postRun.response.status = 200
                   /\ postRun.response.source = "cloud-fallback"
                   /\ postRun.response.translatedText = MyMemoryAttempt(postRun).value
              ELSE /\ postRun.response.status = 503
                   /\ postRun.response.isFallback
                   /\ postRun.response.source = "none"
                   /\ postRun.response.translatedText = postRun.request.text
    /\ postRun.method = "GET" =>
         postRun.health = Health(503, "unhealthy", FALSE)

\* C28: whenever at least one call of the hook's translate is in flight, the
\* hook's isTranslating flag is true, also when calls overlap and one of them
\* has completed.
C28_BusyWhileInFlight == pending # << >> => hookIsTranslating

\* C29: whenever the effects of the last render have run (in particular in
\* every quiescent state), originalGeneratedText is non-empty and a language
\* other than English is selected, lastTranslatedLang equals selectedLanguage,
\* also after handleGenerate has written the language it captured before the
\* language was changed.
C29_TrackedLanguageAtRest ==
  ( /\ ~renderPending
    /\ originalGeneratedText # EmptyText
    /\ selectedLanguage \notin {"", "en"} )
  => lastTranslatedLang = selectedLanguage

\* The effect that follows the completion of handleGenerate's call for a
\* language that is no longer selected: it found lastTranslatedLang different
\* from selectedLanguage at step 3 and took it back.
C29_Witness ==
  /\ ~renderPending
  /\ step = 3
  /\ event.kind = "effect"
  /\ event.issued = 1
  /\ originalGeneratedText # EmptyText
  /\ selectedLanguage = "gu"
  /\ lastTranslatedLang = "gu"
  /\ pending # << >>
  /\ pending[Len(pending)] =
       Call("effect", originalGeneratedText, "gu", "mr")

\* The poll whose fetchAlerts call ran to its end in the last step.
SettledPoll == crisis.polls[crisis.last.poll]

\* A step of the crisis view in which the poll issued i-th settles.
IsSettleStep(i) ==
  /\ crisis'.last = CrisisEvent("settle", i)
  /\ i \in DOMAIN crisis.polls
  /\ ~crisis.polls[i].settled
  /\ crisis'.polls[i].settled

\* C22: after the crisis view is torn down, the timer starts no further poll,
\* and the response of a poll that was in flight at teardown changes neither
\* the alert list nor the loading flag.
C22_TornDownViewIsInert ==
  [][ crisis.view = "unmounted" =>
        /\ Len(crisis'.polls) = Len(crisis.polls)
        /\ crisis'.alerts = crisis.alerts
        /\ crisis'.loadingAlerts = crisis.loadingAlerts ]_vars

\* A poll in flight at teardown has settled with a non-empty list that is not
\* the displayed one, while the loading flag was set.
C22_Witness ==
  /\ crisis.view = "unmounted"
  /\ crisis.last.kind = "settle"
  /\ ~Throws(SettledPoll.answer)
  /\ HasAlerts(SettledPoll.answer.body)
  /\ SettledPoll.answer.body.alerts # crisis.alerts
  /\ crisis.loadingAlerts
  /\ Len(crisis.polls) < MaxPolls

\* C23: when a poll of the mounted view fails (the proxy answers 500 or 502,
\* the fetch rejects, or the body is not JSON) the displayed alert list is left
\* exactly as it was and the loading flag is cleared.
C23_FailedPollKeepsList ==
  [][ \A i \in DOMAIN crisis.polls :
        ( /\ IsSettleStep(i)
          /\ crisis.view = "mounted"
          /\ Throws(crisis'.polls[i].answer) )
        => /\ crisis'.alerts = crisis.alerts
           /\ crisis'.loadingAlerts = FALSE
           /\ crisis'.view = "mounted" ]_vars

\* A poll answered 502 by the proxy has settled while a list was displayed.
C23_Witness ==
  /\ crisis.view = "mounted"
  /\ crisis.last.kind = "settle"
  /\ SettledPoll.answer.resolved
  /\ SettledPoll.answer.status = 502
  /\ crisis.alerts # << >>
  /\ ~crisis.loadingAlerts

\* The polls that ran to their end with a non-empty list of alerts.
AppliedPolls ==
  {i \in DOMAIN crisis.polls :
     /\ crisis.polls[i].settled
     /\ ~Throws(crisis.polls[i].answer)
     /\ HasAlerts(crisis.polls[i].answer.body)}

\* The latest of a non-empty set of polls, in issue order.
Latest(polls) == CHOOSE i \in polls : \A j \in polls : j <= i

\* C24: while the view is mounted, the displayed alert list is exactly the
\* list returned by the latest poll, in issue order, that succeeded with a
\* non-empty list; the late response of an earlier poll never replaces the
\* list applied from a later poll.
C24_LatestPollShown ==
  (crisis.view = "mounted" /\ AppliedPolls # {})
    => crisis.alerts = crisis.polls[Latest(AppliedPolls)].answer.body.alerts

\* C30: once the displayed alert list of a mounted crisis view is non-empty it
\* never becomes empty again; a successful poll whose alerts list is empty or
\* whose alerts field is not an array leaves the displayed list unchanged, as
\* does every failed poll.
C30_ListNeverEmptied ==
  [][ /\ (crisis.alerts # << >> => crisis'.alerts # << >>)
      /\ \A i \in DOMAIN crisis.polls :
           ( /\ IsSettleStep(i)
             /\ \/ Throws(crisis'.polls[i].answer)
                \/ ~HasAlerts(crisis'.polls[i].answer.body) )
           => crisis'.alerts = crisis.alerts ]_vars

\* A poll answered 200 with an empty list has settled while a list was
\* displayed.
C30_Witness ==
  /\ crisis.view = "mounted"
  /\ crisis.last.kind = "settle"
  /\ ~Throws(SettledPoll.answer)
  /\ SettledPoll.answer.body = AlertsBody(<< >>)
  /\ crisis.alerts # << >>

\* { alerts: [], error } with an error message.
IsErrorBody(body) ==
  /\ body.kind = "object"
  /\ body.alertsField = "array"
  /\ body.alerts = << >>
  /\ body.error # ""

\* C25: GET on the alerts proxy always returns a response: the upstream body
\* unchanged when the upstream answers 2xx with JSON, {alerts: [], error} with
\* status 502 when the upstream answers non-2xx, and {alerts: [], error} with
\* status 500 when the upstream is unreachable or its body cannot be read or
\* parsed.
C25_GetNeverThrows ==
  alertsRun.method = "GET" =>
    /\ alertsRun.calls = << >>
    /\ alertsRun.response.status \in {200, 500, 502}
    /\ (alertsRun.upstream.reached /\ IsOk(alertsRun.upstream) /\ alertsRun.upstream.parsed)
         => alertsRun.response = ProxyResponse(200, alertsRun.upstream.body)
    /\ ( /\ alertsRun.upstream.reached
         /\ ~IsOk(alertsRun.upstream)
         /\ alertsRun.upstream.readable )
         => /\ alertsRun.response.status = 502
            /\ IsErrorBody(alertsRun.response.body)
    /\ ( \/ ~alertsRun.upstream.reached
         \/ ~alertsRun.upstream.readable
         \/ (IsOk(alertsRun.upstream) /\ ~alertsRun.upstream.parsed) )
         => /\ alertsRun.response.status = 500
            /\ IsErrorBody(alertsRun.response.body)

\* The upstream has answered a GET with status 503 and a JSON body that holds
\* alerts, and the proxy has answered 502 without them.
C25_Witness ==
  /\ alertsRun.method = "GET"
  /\ alertsRun.upstream.reached
  /\ alertsRun.upstream.status = 503
  /\ alertsRun.upstream.parsed
  /\ alertsRun.upstream.body = AlertsBody(<<1>>)
  /\ alertsRun.response.status = 502

\* C26: POST on the alerts proxy with keywords missing, not an array, or an
\* empty array is answered with status 400 and makes no upstream call; with a
\* non-empty keywords array it makes exactly one upstream start-monitor request
\* carrying those keywords and the request's interval_seconds, or 300 when
\* interval_seconds is absent.
C26_PostContract ==
  alertsRun.method = "POST" =>
    /\ (alertsRun.request.keywords.kind # "array" \/ alertsRun.request.keywords.items = << >>)
         => /\ alertsRun.response.status = 400
            /\ alertsRun.calls = << >>
    /\ (alertsRun.request.keywords.kind = "array" /\ alertsRun.request.keywords.items # << >>)
         => /\ Len(alertsRun.calls) = 1
            /\ alertsRun.calls[1].path = "/start-monitor"
            /\ alertsRun.calls[1].keywords = alertsRun.request.keywords.items
            /\ alertsRun.calls[1].interval_seconds =
                 IF alertsRun.request.interval.present
                   THEN alertsRun.request.interval.value
                   ELSE DefaultIntervalSeconds

====
